---- MODULE Spec2Model ----
(***************************************************************************)
(* Company Data Processor (src/app.py): validation of SIC codes, per-code  *)
(* fetch and dissolution-date filter, aggregation, statistics and the      *)
(* workbook with its conditional row highlighting.                         *)
(*                                                                         *)
(* Text the program inspects character by character (the manual input,    *)
(* the codes, the fields of the uploaded file) is a sequence of            *)
(* one-character strings.  The cells of a table are atomic strings, NaN    *)
(* the missing value of pandas; Chars spells a date cell out for parsing.  *)
(***************************************************************************)
EXTENDS Integers, Sequences, FiniteSets, TLC

VARIABLES
    pc,                        \* position in main(): "start", "validated", "loop", "done"
    input_method,              \* st.radio choice: "manual" or "file"
    input,                     \* manual_input (text) or uploaded_file (first-column fields);
                               \* not read after validation, and dropped when the loop starts
    is_valid,                  \* first component of validate_sic_input's result
    message,                   \* the st.error / st.warning / st.success text of the validation step
    invalid_codes,             \* the tokens read_keywords_from_file reports as ignored
    keywords,                  \* the validated codes
    columns,                   \* column order of the tables the registry returns
    idx,                       \* number of codes the loop has processed
    fetchLog,                  \* one entry per download_csv_for_keyword call
    all_data,                  \* accumulated DataFrame
    active_company_addresses,  \* accumulated DataFrame
    processed_sheets,          \* dict code -> filtered DataFrame, in insertion order
    stats,                     \* << >>, or <<the result of process_company_stats>>
    output,                    \* << >>, or <<the workbook written to the buffer>>
    csv,                       \* << >>, or <<the table of the Active_Addresses CSV download>>
    signal,                    \* what the caller is shown at the end of the run
    input_df,                  \* argument of filter_and_append_data (filter specification)
    filtered_df                \* result of filter_and_append_data (filter specification)

vars == <<pc, input_method, input, is_valid, message, invalid_codes, keywords,
          columns, idx, fetchLog, all_data, active_company_addresses,
          processed_sheets, stats, output, csv, signal, input_df, filtered_df>>

---------------------------------------------------------------------------
(* Bounds of the model *)

MaxInputLen == 6
MaxCodes == 2
MaxRows == 1
MaxFilterRows == 2

(* Program constants *)

MaxCodeLen == 5
MaxSheetNameLen == 31
CutoffYear == 2019
CutoffMonth == 1
CutoffDay == 1

---------------------------------------------------------------------------
(* Text *)

Digits == {"0", "1", "2", "3", "4", "5", "6", "7", "8", "9"}
Whitespace == {" "}
NoText == << >>

RECURSIVE SeqsUpTo(_, _)
SeqsUpTo(S, n) ==
    IF n = 0 THEN {<< >>}
    ELSE LET shorter == SeqsUpTo(S, n - 1)
         IN  shorter \cup {Append(s, x) : s \in {t \in shorter : Len(t) = n - 1}, x \in S}

\* str.lstrip / str.rstrip / str.strip
RECURSIVE LStrip(_)
LStrip(s) == IF s # << >> /\ Head(s) \in Whitespace THEN LStrip(Tail(s)) ELSE s

RECURSIVE RStrip(_)
RStrip(s) ==
    IF s # << >> /\ s[Len(s)] \in Whitespace THEN RStrip(SubSeq(s, 1, Len(s) - 1)) ELSE s

Strip(s) == RStrip(LStrip(s))

\* str.split(sep) for a one-character separator: "" splits to [""]
RECURSIVE SplitFrom(_, _, _)
SplitFrom(s, sep, cur) ==
    IF s = << >> THEN <<cur>>
    ELSE IF Head(s) = sep THEN <<cur>> \o SplitFrom(Tail(s), sep, << >>)
    ELSE SplitFrom(Tail(s), sep, Append(cur, Head(s)))

Split(s, sep) == SplitFrom(s, sep, << >>)

\* str.isdigit
IsDigit(s) == s # << >> /\ \A i \in 1..Len(s) : s[i] \in Digits

\* re.match(r'^[\d\s,]+$', s)
MatchesAllowedChars(s) ==
    s # << >> /\ \A i \in 1..Len(s) : s[i] \in Digits \cup Whitespace \cup {","}

StripAll(ss) == [i \in 1..Len(ss) |-> Strip(ss[i])]

NonEmptyText(s) == s # << >>

\* int(s) for a string of decimal digits
DigitValue(c) ==
    CASE c = "0" -> 0 [] c = "1" -> 1 [] c = "2" -> 2 [] c = "3" -> 3 [] c = "4" -> 4
      [] c = "5" -> 5 [] c = "6" -> 6 [] c = "7" -> 7 [] c = "8" -> 8 [] c = "9" -> 9

RECURSIVE IntValue(_)
IntValue(s) ==
    IF s = << >> THEN 0 ELSE 10 * IntValue(SubSeq(s, 1, Len(s) - 1)) + DigitValue(s[Len(s)])

\* str(n) for an integer n >= 0
DigitChar(d) ==
    CASE d = 0 -> "0" [] d = 1 -> "1" [] d = 2 -> "2" [] d = 3 -> "3" [] d = 4 -> "4"
      [] d = 5 -> "5" [] d = 6 -> "6" [] d = 7 -> "7" [] d = 8 -> "8" [] d = 9 -> "9"

RECURSIVE IntText(_)
IntText(n) == IF n < 10 THEN <<DigitChar(n)>> ELSE Append(IntText(n \div 10), DigitChar(n % 10))

---------------------------------------------------------------------------
(* validate_sic_input *)

\* the for loop of lines 27-31: the first code that fails decides the error
RECURSIVE FirstCodeError(_)
FirstCodeError(codes) ==
    IF codes = << >> THEN "none"
    ELSE IF ~IsDigit(Head(codes)) THEN "is not a valid number"
    ELSE IF Len(Head(codes)) > MaxCodeLen THEN "is too long (max 5 digits)"
    ELSE FirstCodeError(Tail(codes))

SplitCodes(input_str) == SelectSeq(StripAll(Split(input_str, ",")), NonEmptyText)

\* the validation without the loop of lines 27-31
validate_sic_input_unchecked(input_str) ==
    IF Strip(input_str) = << >>
    THEN [ok |-> FALSE, codes |-> << >>, error |-> "Input cannot be empty"]
    ELSE IF ~MatchesAllowedChars(input_str)
    THEN [ok |-> FALSE, codes |-> << >>, error |-> "Only numbers and commas are allowed"]
    ELSE IF SplitCodes(input_str) = << >>
    THEN [ok |-> FALSE, codes |-> << >>, error |-> "No valid SIC codes found"]
    ELSE [ok |-> TRUE, codes |-> SplitCodes(input_str), error |-> "none"]

validate_sic_input(input_str) ==
    IF Strip(input_str) = << >>
    THEN [ok |-> FALSE, codes |-> << >>, error |-> "Input cannot be empty"]
    ELSE IF ~MatchesAllowedChars(input_str)
    THEN [ok |-> FALSE, codes |-> << >>, error |-> "Only numbers and commas are allowed"]
    ELSE LET codes == SplitCodes(input_str)
         IN  IF codes = << >>
             THEN [ok |-> FALSE, codes |-> << >>, error |-> "No valid SIC codes found"]
             ELSE IF FirstCodeError(codes) # "none"
             THEN [ok |-> FALSE, codes |-> << >>, error |-> FirstCodeError(codes)]
             ELSE [ok |-> TRUE, codes |-> codes, error |-> "none"]

---------------------------------------------------------------------------
(* read_keywords_from_file *)

(* The uploaded file is the sequence of the first-column fields of its     *)
(* lines; an empty field is a missing value.  pd.read_csv takes the first  *)
(* line as the header and infers one dtype for the column: int64 when      *)
(* every field is an integer literal, float64 when the integer literals    *)
(* come with missing values, object (the text as written) otherwise.       *)
IsMissing(field) == field = << >>

IsPresent(field) == field # << >>

ColumnIsNumeric(fields) == \A i \in 1..Len(fields) : IsMissing(fields[i]) \/ IsDigit(fields[i])

ColumnHasMissing(fields) == \E i \in 1..Len(fields) : IsMissing(fields[i])

\* astype(str) of an int64 value and of a float64 value with no fraction
IntCellText(field) == IntText(IntValue(field))

FloatCellText(field) == IntText(IntValue(field)) \o <<".", "0">>

IntCellTexts(fields) == [i \in 1..Len(fields) |-> IntCellText(fields[i])]

FloatCellTexts(fields) == [i \in 1..Len(fields) |-> FloatCellText(fields[i])]

\* df.iloc[:, 0].dropna().astype(str).str.strip().tolist() of pd.read_csv(file)
FirstColumnKeywords(file) ==
    IF file = << >> THEN << >>
    ELSE LET fields  == Tail(file)
             present == SelectSeq(fields, IsPresent)
         IN  StripAll(IF ~ColumnIsNumeric(fields) THEN present
                      ELSE IF ColumnHasMissing(fields) THEN FloatCellTexts(present)
                      ELSE IntCellTexts(present))

IsValidCode(code) == IsDigit(code) /\ Len(code) <= MaxCodeLen

IsInvalidCode(code) == ~IsValidCode(code)

read_keywords_from_file(file) ==
    LET keywords_ == FirstColumnKeywords(file)
    IN  [valid_codes   |-> SelectSeq(keywords_, IsValidCode),
         invalid_codes |-> SelectSeq(keywords_, IsInvalidCode)]

---------------------------------------------------------------------------
(* process_dissolution_date *)

NaN == "<NaN>"     \* the missing value of a table cell
None == << >>      \* no date; a date is <<year, month, day>>

\* the characters of the date strings the registry rows of the model carry
Chars(date_str) ==
    CASE date_str = "15/03/2018" -> <<"1","5","/","0","3","/","2","0","1","8">>
      [] date_str = "20/06/2021" -> <<"2","0","/","0","6","/","2","0","2","1">>
      [] date_str = "01/01/2019" -> <<"0","1","/","0","1","/","2","0","1","9">>
      [] date_str = "02/01/2019" -> <<"0","2","/","0","1","/","2","0","1","9">>
      [] date_str = "31/12/2018" -> <<"3","1","/","1","2","/","2","0","1","8">>
      [] date_str = "1/2/2019"   -> <<"1","/","2","/","2","0","1","9">>
      [] date_str = "31/02/2020" -> <<"3","1","/","0","2","/","2","0","2","0">>
      [] date_str = "29/02/2020" -> <<"2","9","/","0","2","/","2","0","2","0">>
      [] date_str = "2019-01-01" -> <<"2","0","1","9","-","0","1","-","0","1">>
      [] date_str = "2019-01-02" -> <<"2","0","1","9","-","0","1","-","0","2">>
      [] date_str = "2018-03-15" -> <<"2","0","1","8","-","0","3","-","1","5">>
      [] date_str = "2021-06-20" -> <<"2","0","2","1","-","0","6","-","2","0">>
      [] date_str = "2021-13-01" -> <<"2","0","2","1","-","1","3","-","0","1">>
      [] date_str = "unknown"    -> <<"u","n","k","n","o","w","n">>
      [] date_str = "20/06/21"   -> <<"2","0","/","0","6","/","2","1">>

IsLeapYear(y) == (y % 4 = 0 /\ y % 100 # 0) \/ y % 400 = 0

DaysInMonth(y, m) ==
    IF m = 2 THEN (IF IsLeapYear(y) THEN 29 ELSE 28)
    ELSE IF m \in {4, 6, 9, 11} THEN 30 ELSE 31

\* the fields strptime accepts for %d, %m and %Y
IsDayField(f) == IsDigit(f) /\ Len(f) <= 2 /\ IntValue(f) \in 1..31

IsMonthField(f) == IsDigit(f) /\ Len(f) <= 2 /\ IntValue(f) \in 1..12

IsYearField(f) == IsDigit(f) /\ Len(f) = 4 /\ IntValue(f) >= 1

\* datetime(y, m, d) of three fields, None when strptime raises ValueError
DateOfFields(yf, mf, df) ==
    IF IsYearField(yf) /\ IsMonthField(mf) /\ IsDayField(df)
       /\ IntValue(df) <= DaysInMonth(IntValue(yf), IntValue(mf))
    THEN <<IntValue(yf), IntValue(mf), IntValue(df)>>
    ELSE None

\* datetime.strptime(date_str, '%d/%m/%Y')
ParseDayMonthYear(text) ==
    LET f == Split(text, "/")
    IN  IF Len(f) = 3 THEN DateOfFields(f[3], f[2], f[1]) ELSE None

\* datetime.strptime(date_str, '%Y-%m-%d')
ParseIso(text) ==
    LET f == Split(text, "-")
    IN  IF Len(f) = 3 THEN DateOfFields(f[1], f[2], f[3]) ELSE None

process_dissolution_date(date_str) ==
    IF date_str = NaN \/ date_str = "" THEN None
    ELSE IF ParseDayMonthYear(Chars(date_str)) # None THEN ParseDayMonthYear(Chars(date_str))
    ELSE ParseIso(Chars(date_str))

\* date >= datetime(2019, 1, 1)
NotBeforeCutoff(date) ==
    \/ date[1] > CutoffYear
    \/ date[1] = CutoffYear /\ date[2] > CutoffMonth
    \/ date[1] = CutoffYear /\ date[2] = CutoffMonth /\ date[3] >= CutoffDay

\* date > datetime(2019, 1, 1)
AfterCutoff(date) ==
    \/ date[1] > CutoffYear
    \/ date[1] = CutoffYear /\ date[2] > CutoffMonth
    \/ date[1] = CutoffYear /\ date[2] = CutoffMonth /\ date[3] > CutoffDay

---------------------------------------------------------------------------
(* DataFrames: cols is the column order, rows the rows in order, each row   *)
(* a function from the column names to the cells                           *)

Range(s) == {s[i] : i \in 1..Len(s)}

DataFrame(cols, rows) == [cols |-> cols, rows |-> rows]

\* pd.DataFrame()
EmptyFrame == DataFrame(<< >>, << >>)

\* df is None
IsNoFrame(df) == FALSE

\* df.empty
IsEmptyFrame(df) == df.cols = << >> \/ df.rows = << >>

Reindex(row, cols) == [c \in Range(cols) |-> IF c \in DOMAIN row THEN row[c] ELSE NaN]

\* pd.concat([a, b], ignore_index=True)
Concat(a, b) ==
    LET cols == a.cols \o SelectSeq(b.cols, LAMBDA c : c \notin Range(a.cols))
        both == a.rows \o b.rows
    IN  DataFrame(cols, [i \in 1..Len(both) |-> Reindex(both[i], cols)])

\* df.drop_duplicates(): the first occurrence of every row stays
RECURSIVE FirstOccurrences(_, _)
FirstOccurrences(rows, seen) ==
    IF rows = << >> THEN << >>
    ELSE IF Head(rows) \in seen THEN FirstOccurrences(Tail(rows), seen)
    ELSE <<Head(rows)>> \o FirstOccurrences(Tail(rows), seen \cup {Head(rows)})

\* a drop_duplicates() whose result is discarded (no inplace=True)
DropDuplicatesDiscarded(df) == df

DropDuplicates(df) == DataFrame(df.cols, FirstOccurrences(df.rows, {}))

\* the frame without the status test
WithAnyStatus(df, status) == df

\* df[df['company_status'] == status]
WithStatus(df, status) ==
    DataFrame(df.cols, SelectSeq(df.rows, LAMBDA r : r["company_status"] = status))

\* df[cols]
Project(df, cols) ==
    DataFrame(cols, [i \in 1..Len(df.rows) |-> [c \in Range(cols) |-> df.rows[i][c]]])

---------------------------------------------------------------------------
(* filter_and_append_data *)

KeepRow(row) ==
    LET date == process_dissolution_date(row["dissolution_date"])
    IN  date = None \/ AfterCutoff(date)

filter_and_append_data(df) == DataFrame(df.cols, SelectSeq(df.rows, KeepRow))

---------------------------------------------------------------------------
(* process_company_stats *)

RECURSIVE JoinText(_)
JoinText(chars) == IF chars = << >> THEN "" ELSE Head(chars) \o JoinText(Tail(chars))

\* process_dissolution_date(x).year if process_dissolution_date(x) else None,
\* the number written as its decimal digits
DissolutionYear(date_str) ==
    LET date == process_dissolution_date(date_str)
    IN  IF date = None THEN NaN ELSE JoinText(IntText(date[1]))

CountStatus(df, status) == Len(WithStatus(df, status).rows)

\* data_df['dissolution_year'] = ...: the column is added to the frame passed in
AssignDissolutionYear(df) ==
    DataFrame(IF "dissolution_year" \in Range(df.cols) THEN df.cols
              ELSE Append(df.cols, "dissolution_year"),
              [i \in 1..Len(df.rows) |->
                  [c \in DOMAIN df.rows[i] \cup {"dissolution_year"} |->
                      IF c = "dissolution_year"
                      THEN DissolutionYear(df.rows[i]["dissolution_date"])
                      ELSE df.rows[i][c]]])

\* value_counts() of the years that are not missing
DissolutionByYear(df) ==
    LET year(i) == DissolutionYear(df.rows[i]["dissolution_date"])
        years   == {year(i) : i \in 1..Len(df.rows)} \ {NaN}
    IN  [y \in years |-> Cardinality({i \in 1..Len(df.rows) : year(i) = y})]

\* the returned stats, and data_df as the call leaves it
process_company_stats(data_df) ==
    [stats   |-> [active      |-> CountStatus(data_df, "Active"),
                  dissolved   |-> CountStatus(data_df, "Dissolved"),
                  liquidation |-> CountStatus(data_df, "Liquidation"),
                  by_year     |-> DissolutionByYear(data_df)],
     data_df |-> AssignDissolutionYear(data_df)]

---------------------------------------------------------------------------
(* The workbook *)

\* df.to_excel(writer, sheet_name=name, index=False): a header row, then the
\* rows' cells in column order; fill[i][j] is whether cell j of data row i
\* carries the highlight fill
to_excel(df, sheet_name) ==
    [name   |-> sheet_name,
     header |-> df.cols,
     cells  |-> [i \in 1..Len(df.rows) |-> [j \in 1..Len(df.cols) |-> df.rows[i][df.cols[j]]]],
     fill   |-> [i \in 1..Len(df.rows) |-> [j \in 1..Len(df.cols) |-> FALSE]]]

highlight_dissolved_rows(sheet, max_col) ==
    [sheet EXCEPT !.fill =
        [i \in 1..Len(sheet.cells) |->
            IF sheet.cells[i][max_col] = "Dissolved"
            THEN [j \in 1..Len(sheet.cells[i]) |-> (j <= max_col) \/ sheet.fill[i][j]]
            ELSE sheet.fill[i]]]

\* f"SIC_{sic_code}"[:31]
SheetName(sic_code) ==
    LET name == <<"S", "I", "C", "_">> \o sic_code
    IN  SubSeq(name, 1, IF Len(name) < MaxSheetNameLen THEN Len(name) ELSE MaxSheetNameLen)

\* processed_sheets[keyword] = filtered_df: a key already present keeps its place
DictKeys(dict) == {dict[i].key : i \in 1..Len(dict)}

DictSet(dict, key, value) ==
    IF key \in DictKeys(dict)
    THEN [i \in 1..Len(dict) |-> IF dict[i].key = key THEN [key |-> key, value |-> value] ELSE dict[i]]
    ELSE Append(dict, [key |-> key, value |-> value])

\* lines 190-198: one sheet per entry of processed_sheets
CodeSheet(sic_code, df) ==
    highlight_dissolved_rows(to_excel(df, SheetName(sic_code)), Len(df.cols))

\* lines 201-202
MasterSheet(df) == highlight_dissolved_rows(to_excel(df, "Master_Data"), Len(df.cols))

BuildWorkbook(sheets, data, stats_, addresses) ==
    [code_sheets      |-> [i \in 1..Len(sheets) |-> CodeSheet(sheets[i].key, sheets[i].value)],
     Master_Data      |-> MasterSheet(data),
     Stats            |-> stats_,
     Active_Addresses |-> to_excel(addresses, "Active_Addresses")]

---------------------------------------------------------------------------
(* Inputs of the model *)

ManualAlphabet == {"7", ",", " ", "x"}

\* manual texts that split into at most MaxCodes tokens
ManualInputs ==
    {text \in SeqsUpTo(ManualAlphabet, MaxInputLen) : Len(SplitCodes(text)) <= MaxCodes}

\* first-column fields of an uploaded file; << >> is an empty field
FileFields ==
    {<<"6", "2", "0", "1", "2">>, <<"9", "9", "9", "9", "9", "9">>,
     <<"0", "1", "1", "1", "0">>, <<"s", "i", "c">>, << >>}

\* the first line, which pd.read_csv takes as the header: a column name, or a
\* code when the file has no header line
HeaderFields == {<<"s", "i", "c">>, <<"6", "2", "0", "1", "2">>}

\* the empty file, or the first line and at most MaxCodes lines of data
UploadedFiles ==
    {<< >>} \cup {<<header>> \o fields : header \in HeaderFields,
                                        fields \in SeqsUpTo(FileFields, MaxCodes)}

ColumnOrders ==
    {<<"company_name", "registered_office_address", "dissolution_date", "company_status">>,
     <<"company_name", "company_status", "dissolution_date", "registered_office_address">>}

RegistryRows ==
    {[company_name |-> "Acme Ltd", registered_office_address |-> "1 High St LE5",
      company_status |-> "Active", dissolution_date |-> NaN],
     [company_name |-> "Acme Ltd", registered_office_address |-> "1 High St LE5",
      company_status |-> "Active", dissolution_date |-> "2021-06-20"],
     [company_name |-> "Birch Ltd", registered_office_address |-> "2 Low Rd LE5",
      company_status |-> "Dissolved", dissolution_date |-> "20/06/2021"],
     [company_name |-> "Cedar Ltd", registered_office_address |-> "1 High St LE5",
      company_status |-> "Dissolved", dissolution_date |-> "15/03/2018"]}

DateSamples ==
    {NaN, "", "15/03/2018", "20/06/2021", "01/01/2019", "02/01/2019", "31/12/2018",
     "1/2/2019", "31/02/2020", "29/02/2020", "2019-01-01", "2019-01-02", "2018-03-15",
     "2021-06-20", "2021-13-01", "unknown", "20/06/21"}

FilterRows ==
    {[company_name |-> "Acme Ltd", registered_office_address |-> "1 High St LE5",
      company_status |-> "Dissolved", dissolution_date |-> d] : d \in DateSamples}

AddressColumns == <<"company_name", "registered_office_address">>

---------------------------------------------------------------------------
(* main *)

InitPipeline ==
    /\ is_valid = FALSE
    /\ message = "none"
    /\ invalid_codes = << >>
    /\ keywords = << >>
    /\ columns = << >>
    /\ idx = 0
    /\ fetchLog = << >>
    /\ all_data = EmptyFrame
    /\ active_company_addresses = DataFrame(AddressColumns, << >>)
    /\ processed_sheets = << >>
    /\ stats = << >>
    /\ output = << >>
    /\ csv = << >>
    /\ signal = "none"
    /\ input_df = EmptyFrame
    /\ filtered_df = EmptyFrame

\* "Enter SIC codes manually" is selected and the text area holds the input
Init ==
    /\ pc = "start"
    /\ input_method = "manual"
    /\ input \in ManualInputs
    /\ InitPipeline

\* "Upload CSV file" is selected and a file is uploaded
InitFile ==
    /\ pc = "start"
    /\ input_method = "file"
    /\ input \in UploadedFiles
    /\ InitPipeline

\* lines 141-147: the button is pressed
ValidateManual ==
    /\ pc = "start"
    /\ input_method = "manual"
    /\ LET r == validate_sic_input(input)
       IN  /\ is_valid' = r.ok
           /\ keywords' = IF r.ok THEN r.codes ELSE << >>
           /\ message' = IF r.ok THEN "Validated" ELSE r.error
    /\ pc' = "validated"
    /\ UNCHANGED <<input_method, input, invalid_codes, columns, idx, fetchLog, all_data,
                   active_company_addresses, processed_sheets, stats, output, csv,
                   signal, input_df, filtered_df>>

\* lines 130-133
ReadFile ==
    /\ pc = "start"
    /\ input_method = "file"
    /\ LET r == read_keywords_from_file(input)
       IN  /\ keywords' = r.valid_codes
           /\ invalid_codes' = r.invalid_codes
           /\ message' = IF r.invalid_codes # << >> THEN "invalid SIC codes in file (ignored)"
                         ELSE "none"
    /\ pc' = "validated"
    /\ UNCHANGED <<input_method, input, is_valid, columns, idx, fetchLog, all_data,
                   active_company_addresses, processed_sheets, stats, output, csv,
                   signal, input_df, filtered_df>>

\* line 149, keywords empty: nothing is processed and nothing is shown
NoKeywords ==
    /\ pc = "validated"
    /\ keywords = << >>
    /\ pc' = "done"
    /\ UNCHANGED <<input_method, input, is_valid, message, invalid_codes, keywords, columns,
                   idx, fetchLog, all_data, active_company_addresses, processed_sheets,
                   stats, output, csv, signal, input_df, filtered_df>>

\* lines 149-157; the registry's column order is fixed for the run
BeginProcessing ==
    /\ pc = "validated"
    /\ keywords # << >>
    /\ pc' = "loop"
    /\ input' = NoText
    /\ columns' \in ColumnOrders
    /\ idx' = 0
    /\ all_data' = EmptyFrame
    /\ active_company_addresses' = DataFrame(AddressColumns, << >>)
    /\ processed_sheets' = << >>
    /\ UNCHANGED <<input_method, is_valid, message, invalid_codes, keywords, fetchLog,
                   stats, output, csv, signal, input_df, filtered_df>>

\* a failed download that leaves the loop
FetchFailsAndBreaks ==
    /\ pc = "loop"
    /\ idx < Len(keywords)
    /\ idx' = Len(keywords)
    /\ fetchLog' = Append(fetchLog, [keyword |-> keywords[idx + 1], ok |-> FALSE,
                                     filtered |-> EmptyFrame])
    /\ UNCHANGED <<pc, input_method, input, is_valid, message, invalid_codes, keywords,
                   columns, all_data, active_company_addresses, processed_sheets, stats,
                   output, csv, signal, input_df, filtered_df>>

\* lines 158-176 when download_csv_for_keyword returns None (lines 68-70)
FetchFails ==
    /\ pc = "loop"
    /\ idx < Len(keywords)
    /\ idx' = idx + 1
    /\ fetchLog' = Append(fetchLog, [keyword |-> keywords[idx + 1], ok |-> FALSE,
                                     filtered |-> EmptyFrame])
    /\ UNCHANGED <<pc, input_method, input, is_valid, message, invalid_codes, keywords,
                   columns, all_data, active_company_addresses, processed_sheets, stats,
                   output, csv, signal, input_df, filtered_df>>

\* lines 158-176 when download_csv_for_keyword returns a table
FetchSucceeds ==
    /\ pc = "loop"
    /\ idx < Len(keywords)
    /\ \E rows \in SeqsUpTo(RegistryRows, MaxRows) :
       \E filtered \in {filter_and_append_data(DataFrame(columns, rows))} :
          LET keyword == keywords[idx + 1]
              active_addresses == Project(WithStatus(filtered, "Active"), AddressColumns)
          IN  /\ processed_sheets' = DictSet(processed_sheets, keyword, filtered)
              /\ all_data' = Concat(all_data, filtered)
              /\ active_company_addresses' = Concat(active_company_addresses, active_addresses)
              /\ fetchLog' = Append(fetchLog, [keyword |-> keyword, ok |-> TRUE,
                                               filtered |-> filtered])
    /\ idx' = idx + 1
    /\ UNCHANGED <<pc, input_method, input, is_valid, message, invalid_codes, keywords,
                   columns, stats, output, csv, signal, input_df, filtered_df>>

\* lines 178-239: the report
Report ==
    /\ pc = "loop"
    /\ idx = Len(keywords)
    /\ ~IsEmptyFrame(all_data)
    /\ \E addresses \in {DropDuplicates(active_company_addresses)} :
       \E r \in {process_company_stats(DropDuplicates(all_data))} :
          /\ all_data' = r.data_df
          /\ active_company_addresses' = addresses
          /\ stats' = <<r.stats>>
          /\ output' = <<BuildWorkbook(processed_sheets, r.data_df, r.stats, addresses)>>
          /\ csv' = <<addresses>>
    /\ signal' = "report"
    /\ pc' = "done"
    /\ UNCHANGED <<input_method, input, is_valid, message, invalid_codes, keywords, columns,
                   idx, fetchLog, processed_sheets, input_df, filtered_df>>

\* lines 240-241
NoData ==
    /\ pc = "loop"
    /\ idx = Len(keywords)
    /\ IsEmptyFrame(all_data)
    /\ signal' = "no_data"
    /\ pc' = "done"
    /\ UNCHANGED <<input_method, input, is_valid, message, invalid_codes, keywords, columns,
                   idx, fetchLog, all_data, active_company_addresses, processed_sheets,
                   stats, output, csv, input_df, filtered_df>>

Next ==
    \/ ValidateManual
    \/ NoKeywords
    \/ BeginProcessing
    \/ FetchFails
    \/ FetchSucceeds
    \/ Report
    \/ NoData

Spec == Init /\ [][Next]_vars

NextFile ==
    \/ ReadFile
    \/ NoKeywords
    \/ BeginProcessing
    \/ FetchFails
    \/ FetchSucceeds
    \/ Report
    \/ NoData

SpecFile == InitFile /\ [][NextFile]_vars

---------------------------------------------------------------------------
(* filter_and_append_data on its own *)

InitFilter ==
    /\ pc = "filter"
    /\ input_method = "none"
    /\ input = NoText
    /\ is_valid = FALSE
    /\ message = "none"
    /\ invalid_codes = << >>
    /\ keywords = << >>
    /\ \E cols \in ColumnOrders : columns = cols
    /\ idx = 0
    /\ fetchLog = << >>
    /\ all_data = EmptyFrame
    /\ active_company_addresses = DataFrame(AddressColumns, << >>)
    /\ processed_sheets = << >>
    /\ stats = << >>
    /\ output = << >>
    /\ csv = << >>
    /\ signal = "none"
    /\ \E rows \in SeqsUpTo(FilterRows, MaxFilterRows) : input_df = DataFrame(columns, rows)
    /\ filtered_df = EmptyFrame

ApplyFilter ==
    /\ pc = "filter"
    /\ filtered_df' = filter_and_append_data(input_df)
    /\ pc' = "filtered"
    /\ UNCHANGED <<input_method, input, is_valid, message, invalid_codes, keywords, columns,
                   idx, fetchLog, all_data, active_company_addresses, processed_sheets,
                   stats, output, csv, signal, input_df>>

NextFilter == ApplyFilter

SpecFilter == InitFilter /\ [][NextFilter]_vars

---------------------------------------------------------------------------
(* Properties *)

Restrict(row, cols) == [c \in cols |-> row[c]]

ColumnIndex(header, col) == CHOOSE j \in 1..Len(header) : header[j] = col

\* the rows of the filtered per-code tables of the run so far
FilteredRowsOfRun == UNION {Range(fetchLog[i].filtered.rows) : i \in 1..Len(fetchLog)}

CodesWereProcessed == pc = "done" /\ keywords # << >>

ReportProduced == output # << >>

\* C1: in the workbook of a run, a row of Master_Data has every cell filled
\* with the highlight colour if and only if its company_status is 'Dissolved'.
C1_MasterHighlightIffDissolved ==
    ReportProduced =>
        LET sheet == output[1].Master_Data
        IN  \A i \in 1..Len(sheet.cells) :
                (\A j \in 1..Len(sheet.cells[i]) : sheet.fill[i][j])
                    <=> sheet.cells[i][ColumnIndex(sheet.header, "company_status")] = "Dissolved"

\* C2: after all codes are processed the UnifiedTable holds no two rows equal
\* in all columns, and every row of every filtered per-code table exactly once.
C2_UnifiedTableDeduplicated ==
    CodesWereProcessed =>
        /\ \A i, j \in 1..Len(all_data.rows) : all_data.rows[i] = all_data.rows[j] => i = j
        /\ \A row \in FilteredRowsOfRun :
              Cardinality({i \in 1..Len(all_data.rows) :
                              Restrict(all_data.rows[i], DOMAIN row) = row}) = 1

\* two fetches returned the same row and the report holds it once
C2_Witness ==
    /\ CodesWereProcessed
    /\ ReportProduced
    /\ Len(fetchLog) = 2
    /\ fetchLog[1].ok /\ fetchLog[2].ok
    /\ fetchLog[1].filtered.rows # << >>
    /\ fetchLog[1].filtered.rows = fetchLog[2].filtered.rows
    /\ Len(all_data.rows) = 1

\* the dates the claim assigns to the sample strings: day/month/year first,
\* then ISO, otherwise no date
C3_ExpectedDate(date_str) ==
    CASE date_str = "15/03/2018" -> <<2018, 3, 15>>
      [] date_str = "20/06/2021" -> <<2021, 6, 20>>
      [] date_str = "01/01/2019" -> <<2019, 1, 1>>
      [] date_str = "02/01/2019" -> <<2019, 1, 2>>
      [] date_str = "31/12/2018" -> <<2018, 12, 31>>
      [] date_str = "1/2/2019"   -> <<2019, 2, 1>>
      [] date_str = "29/02/2020" -> <<2020, 2, 29>>
      [] date_str = "2019-01-01" -> <<2019, 1, 1>>
      [] date_str = "2019-01-02" -> <<2019, 1, 2>>
      [] date_str = "2018-03-15" -> <<2018, 3, 15>>
      [] date_str = "2021-06-20" -> <<2021, 6, 20>>
      [] OTHER -> << >>

C3_Keeps(row) ==
    LET date == C3_ExpectedDate(row["dissolution_date"])
    IN  date = << >> \/ date[1] * 10000 + date[2] * 100 + date[3] > 20190101

\* C3: filter_and_append_data keeps a row iff its dissolution_date is missing,
\* empty or unparseable, or parses (DD/MM/YYYY first, then YYYY-MM-DD) to a date
\* strictly after 2019-01-01; the kept rows keep their relative order.
C3_FilterKeepsExactly ==
    pc = "filtered" =>
        /\ filtered_df.cols = input_df.cols
        /\ filtered_df.rows = SelectSeq(input_df.rows, C3_Keeps)

\* scenario B, with the cutoff day itself between the two rows
C3_Witness ==
    /\ pc = "filtered"
    /\ Len(input_df.rows) = 2
    /\ input_df.rows[1]["dissolution_date"] = "15/03/2018"
    /\ input_df.rows[2]["dissolution_date"] = "20/06/2021"
    /\ Len(filtered_df.rows) = 1
    /\ filtered_df.rows[1]["dissolution_date"] = "20/06/2021"

\* the comma-separated tokens of a text, by position: the text between two
\* neighbouring commas (or an end of the text), without the blanks around it
C4_Cuts(text) == {0, Len(text) + 1} \cup {i \in 1..Len(text) : text[i] = ","}

C4_Inked(text, a) ==
    LET b == CHOOSE c \in C4_Cuts(text) :
                 c > a /\ \A d \in C4_Cuts(text) : d > a => c <= d
    IN  {i \in (a + 1)..(b - 1) : text[i] \notin Whitespace}

C4_Token(text, a) ==
    LET inked == C4_Inked(text, a)
        first == CHOOSE i \in inked : \A k \in inked : i <= k
        last  == CHOOSE i \in inked : \A k \in inked : i >= k
    IN  SubSeq(text, first, last)

C4_Tokens(text) ==
    LET starts == {a \in C4_Cuts(text) \ {Len(text) + 1} : C4_Inked(text, a) # {}}
    IN  [k \in 1..Cardinality(starts) |->
            C4_Token(text, CHOOSE a \in starts : Cardinality({x \in starts : x < a}) = k - 1)]

C4_TokenIsCode(token) ==
    Len(token) <= 5 /\ \A i \in 1..Len(token) : token[i] \in Digits

\* C4: manual validation is all-or-nothing: success, with the full ordered list
\* of tokens, only when every token is all digits and at most 5 long; an empty
\* input, a character other than digit, comma or blank, or one invalid token
\* gives failure with no codes, and then no fetch is issued.
C4_ManualAllOrNothing ==
    /\ pc = "validated" =>
          LET tokens == C4_Tokens(input)
          IN  /\ is_valid <=> (tokens # << >> /\ \A k \in 1..Len(tokens) : C4_TokenIsCode(tokens[k]))
              /\ is_valid => keywords = tokens
              /\ ~is_valid => keywords = << >> /\ message # "Validated"
              /\ (\E i \in 1..Len(input) : input[i] \notin Digits \cup {",", " "}) => ~is_valid
    /\ (pc # "start" /\ ~is_valid) =>
          /\ pc \in {"validated", "done"}
          /\ fetchLog = << >>
          /\ output = << >>
          /\ signal = "none"

\* one token of two is not a number: the whole batch fails and nothing is fetched
C4_Witness ==
    /\ pc = "done"
    /\ input = <<"7", ",", "7", " ", "7">>
    /\ message = "is not a valid number"
    /\ ~is_valid
    /\ keywords = << >>
    /\ fetchLog = << >>

\* the first-column tokens of the file: the fields under the header, as written
C5_Tokens(file) == IF file = << >> THEN << >> ELSE SelectSeq(Tail(file), IsPresent)

C5_TokenIsCode(token) ==
    Len(token) <= 5 /\ \A i \in 1..Len(token) : token[i] \in Digits

\* C5: read_keywords_from_file returns exactly the first-column tokens that are
\* all digits and at most 5 long, in order and with duplicates, and drops the
\* others with a warning.
C5_FileLenient ==
    (pc = "validated" /\ input_method = "file") =>
        keywords = SelectSeq(C5_Tokens(input), C5_TokenIsCode)

SourceColumns == {"company_name", "registered_office_address", "company_status", "dissolution_date"}

C6_Progress ==
    (pc \in {"loop", "done"} /\ keywords # << >>) =>
        /\ Len(fetchLog) = idx
        /\ idx <= Len(keywords)
        /\ \A i \in 1..Len(fetchLog) : fetchLog[i].keyword = keywords[i]
        /\ pc = "done" => idx = Len(keywords)
        /\ \A i \in 1..Len(fetchLog) :
              fetchLog[i].ok =>
                  \A row \in Range(fetchLog[i].filtered.rows) :
                      \E k \in 1..Len(all_data.rows) :
                          Restrict(all_data.rows[k], SourceColumns) = row

C6_OneFetchPerStep ==
    fetchLog' # fetchLog =>
        /\ Len(fetchLog') = Len(fetchLog) + 1
        /\ SubSeq(fetchLog', 1, Len(fetchLog)) = fetchLog
        /\ idx' = idx + 1
        /\ pc' = "loop"
        /\ ~fetchLog'[Len(fetchLog')].ok =>
              /\ all_data' = all_data
              /\ active_company_addresses' = active_company_addresses
              /\ processed_sheets' = processed_sheets

\* C6: every code is fetched exactly once, one at a time and in input order; a
\* failed fetch does not abort the loop and contributes no rows, and the
\* filtered rows of every successful fetch are in the UnifiedTable.
C6_FetchEachCodeOnceInOrder == []C6_Progress /\ [][C6_OneFetchPerStep]_vars

\* the first fetch fails, the second succeeds and its row is reported
C6_Witness ==
    /\ pc = "done"
    /\ Len(keywords) = 2
    /\ Len(fetchLog) = 2
    /\ ~fetchLog[1].ok
    /\ fetchLog[2].ok
    /\ fetchLog[2].filtered.rows # << >>
    /\ ReportProduced
    /\ Len(all_data.rows) = 1

\* C7: at the end of a run the AddressExtract is, without duplicates, the set of
\* (company_name, registered_office_address) projections of the UnifiedTable
\* rows whose company_status is 'Active'.
C7_AddressExtractOfUnifiedTable ==
    CodesWereProcessed =>
        /\ Range(active_company_addresses.rows) =
              {Restrict(row, {"company_name", "registered_office_address"}) :
                  row \in {r \in Range(all_data.rows) : r["company_status"] = "Active"}}
        /\ \A i, j \in 1..Len(active_company_addresses.rows) :
              active_company_addresses.rows[i] = active_company_addresses.rows[j] => i = j
        /\ ReportProduced => csv = <<active_company_addresses>>

\* two Active rows of the UnifiedTable share one address row
C7_Witness ==
    /\ CodesWereProcessed
    /\ ReportProduced
    /\ Cardinality({i \in 1..Len(all_data.rows) : all_data.rows[i]["company_status"] = "Active"}) = 2
    /\ Len(active_company_addresses.rows) = 1

\* C8: when the UnifiedTable is empty after all codes are processed, no workbook,
\* no CSV and no Stats are produced and the caller gets the 'no data' signal; a
\* workbook is produced only when the UnifiedTable has a row.
C8_NoReportWithoutData ==
    /\ (CodesWereProcessed /\ all_data.rows = << >>) =>
          /\ output = << >>
          /\ csv = << >>
          /\ stats = << >>
          /\ signal = "no_data"
    /\ ReportProduced => (pc = "done" /\ all_data.rows # << >> /\ signal = "report")

\* one fetch failed and the other returned nothing that passes the filter
C8_Witness ==
    /\ CodesWereProcessed
    /\ signal = "no_data"
    /\ output = << >>
    /\ \E i \in 1..Len(fetchLog) : fetchLog[i].ok
    /\ \E i \in 1..Len(fetchLog) : ~fetchLog[i].ok

\* C9: computing Stats leaves the UnifiedTable unchanged, so Master_Data holds
\* exactly the deduplicated union of the filtered per-code tables, with the
\* source tables' columns and no added column.
C9_StatsLeavesUnifiedTable ==
    ReportProduced =>
        /\ all_data.cols = columns
        /\ output[1].Master_Data.header = columns
        /\ Range(all_data.rows) = FilteredRowsOfRun

\* C10: a produced workbook has one sheet per code of the input, named from the
\* code (at most 31 characters) and holding that code's filtered table (of one
\* of its fetches, when the code occurs more than once), also for a code whose
\* fetch failed, whose table is empty.
C10_SheetPerInputCode ==
    ReportProduced =>
        \A i \in 1..Len(keywords) :
            \E k \in 1..Len(output[1].code_sheets) :
                \E m \in 1..Len(keywords) :
                    LET sheet == output[1].code_sheets[k]
                    IN  /\ keywords[m] = keywords[i]
                        /\ sheet.name = <<"S", "I", "C", "_">> \o keywords[i]
                        /\ Len(sheet.name) <= 31
                        /\ Len(sheet.cells) = Len(fetchLog[m].filtered.rows)
                        /\ \A n \in 1..Len(sheet.cells) :
                              \A j \in 1..Len(sheet.header) :
                                  sheet.cells[n][j] = fetchLog[m].filtered.rows[n][sheet.header[j]]

====
